---------------------------- MODULE Spec2Model ----------------------------
(***************************************************************************)
(* lollipop-jsonschema: json_schema(schema) compiles a Lollipop schema     *)
(* graph into a JSON Schema document.  The module models                   *)
(* src/lollipop_jsonschema/jsonschema.py: the usage count                  *)
(* (_count_schema_usages), the allocation of a named Definition for every  *)
(* node counted more than once, the rendering of the definition bodies and *)
(* of the root (_json_schema) and the assembly of the document.            *)
(*                                                                         *)
(* Strings are sequences of one-character strings, so that                 *)
(* _sanitize_name and the "name + str(i)" of the conflict resolution are   *)
(* computed and not assumed.                                               *)
(***************************************************************************)
EXTENDS Integers, Sequences, FiniteSets, TLC

(***************************************************************************)
(* Bounds of the model.                                                    *)
(***************************************************************************)
\* number of schema nodes of a graph of the structural family
MaxNodes == 3
\* number of shared, named leaves of a graph of the naming family
MaxShared == 3
\* number of fields of the root of a graph of the field family
MaxFields == 2
\* number of validators of the validated node of the validator family
MaxValidators == 2
\* number of json_schema calls made one after the other in one process
MaxCalls == 3
\* largest length a Length validator of the length family asks for
MaxLength == 2
\* number of characters of a declared name of the sanitize family
MaxName == 3

VARIABLES
    schema,       \* the schema graph: the sequence of its nodes' attributes
    root,         \* the node json_schema is called with
    pc,           \* position inside json_schema
    todo,         \* pending _count_schema_usages calls, innermost first
    counts,       \* the dict `counts`: node -> count, 0 when the key is absent
    reached,      \* the keys of `counts` in insertion (first-reached) order
    expanded,     \* history: how often the children of a node were walked
    definitions,  \* the dict `definitions`: node -> Definition
    calls,        \* history: the _json_schema calls made, in order
    result,       \* what json_schema returned or raised
    process       \* what outlives a call: the interpreter and the way its
                  \* dicts iterate, and (history) what earlier calls returned

vars == <<schema, root, pc, todo, counts, reached, expanded, definitions,
          calls, result, process>>

(***************************************************************************)
(* Characters and strings.                                                 *)
(***************************************************************************)
Lower == {"a","b","c","d","e","f","g","h","i","j","k","l","m",
          "n","o","p","q","r","s","t","u","v","w","x","y","z"}
Upper == {"A","B","C","D","E","F","G","H","I","J","K","L","M",
          "N","O","P","Q","R","S","T","U","V","W","X","Y","Z"}
Digit == {"0","1","2","3","4","5","6","7","8","9"}

\* str.upper() on one lower-case letter
ToUpper(c) ==
    CASE c = "a" -> "A" [] c = "b" -> "B" [] c = "c" -> "C" [] c = "d" -> "D"
      [] c = "e" -> "E" [] c = "f" -> "F" [] c = "g" -> "G" [] c = "h" -> "H"
      [] c = "i" -> "I" [] c = "j" -> "J" [] c = "k" -> "K" [] c = "l" -> "L"
      [] c = "m" -> "M" [] c = "n" -> "N" [] c = "o" -> "O" [] c = "p" -> "P"
      [] c = "q" -> "Q" [] c = "r" -> "R" [] c = "s" -> "S" [] c = "t" -> "T"
      [] c = "u" -> "U" [] c = "v" -> "V" [] c = "w" -> "W" [] c = "x" -> "X"
      [] c = "y" -> "Y" [] c = "z" -> "Z" [] OTHER -> c

\* the character class [a-zA-Z0-9-_] of the first re.sub
ValidChar(c) == c \in Lower \cup Upper \cup Digit \cup {"-", "_"}

\* the character class [_ ] of the second re.sub
Separator(c) == c \in {"_", " "}

\* re.sub('[^a-zA-Z0-9-_]+', ' ', name): every run of other characters
\* becomes one space
RECURSIVE ReplaceInvalid(_)
ReplaceInvalid(s) ==
    IF s = <<>> THEN <<>>
    ELSE IF ValidChar(Head(s)) THEN <<Head(s)>> \o ReplaceInvalid(Tail(s))
    ELSE IF Len(s) > 1 /\ ~ValidChar(s[2]) THEN ReplaceInvalid(Tail(s))
    ELSE <<" ">> \o ReplaceInvalid(Tail(s))

\* str.strip(): leading and trailing white space removed
RECURSIVE Strip(_)
Strip(s) ==
    IF s = <<>> THEN <<>>
    ELSE IF Head(s) = " " THEN Strip(Tail(s))
    ELSE IF s[Len(s)] = " " THEN Strip(SubSeq(s, 1, Len(s) - 1))
    ELSE s

\* length of the run of separators s starts with
RECURSIVE SeparatorRun(_)
SeparatorRun(s) ==
    IF s # <<>> /\ Separator(Head(s)) THEN 1 + SeparatorRun(Tail(s)) ELSE 0

\* re.sub('[_ ]+([a-z])', lambda m: m.group(1).upper(), s): a run of
\* separators is dropped only together with the lower-case letter after it
RECURSIVE CamelCase(_)
CamelCase(s) ==
    IF s = <<>> THEN <<>>
    ELSE LET run == SeparatorRun(s) IN
         IF run > 0 /\ Len(s) > run /\ s[run + 1] \in Lower
         THEN <<ToUpper(s[run + 1])>> \o CamelCase(SubSeq(s, run + 2, Len(s)))
         ELSE IF run > 0
         THEN SubSeq(s, 1, run) \o CamelCase(SubSeq(s, run + 1, Len(s)))
         ELSE <<Head(s)>> \o CamelCase(Tail(s))

\* _sanitize_name(name)
SanitizeName(name) == CamelCase(Strip(ReplaceInvalid(name)))

\* str(i) for i >= 0
RECURSIVE Str(_)
Str(i) ==
    LET digit == CASE i % 10 = 0 -> "0" [] i % 10 = 1 -> "1"
                   [] i % 10 = 2 -> "2" [] i % 10 = 3 -> "3"
                   [] i % 10 = 4 -> "4" [] i % 10 = 5 -> "5"
                   [] i % 10 = 6 -> "6" [] i % 10 = 7 -> "7"
                   [] i % 10 = 8 -> "8" [] OTHER -> "9"
    IN IF i < 10 THEN <<digit>> ELSE Str(i \div 10) \o <<digit>>

\* the default definition name 'Type'
DefaultName == <<"T", "y", "p", "e">>

\* a declared name of None
NoName == <<>>

(***************************************************************************)
(* Schema nodes.  A node is a record of the attributes json_schema reads:  *)
(*   kind        the class of the node (lt.String, lt.List, ...,           *)
(*               lr.TypeRef)                                               *)
(*   name, description   the declared ones, NoName for None               *)
(*   types       the children in order: item_type, item_types, the field   *)
(*               types of fields, the fixed value_types, types of a OneOf, *)
(*               inner_type                                                *)
(*   allow_extra_fields  of an Object: "None", "True", "False" or "Field"  *)
(*   extra       the field_type of an Object's allow_extra_fields Field,   *)
(*               the value_types.default of a Dict; NoNode when absent     *)
(*   validators  the attached validators in order                          *)
(*   load_default  of an Optional: <<v>> when load_default() returns v,    *)
(*               <<>> when it returns None                                 *)
(* Domain values (choices, defaults) are strings; "" is the falsy one.     *)
(* The exact, min and max of a Length validator are <<>> for None and      *)
(* <<v>> for the number v.                                                 *)
(* The k-th field of an Object and the k-th fixed key of a Dict are named  *)
(* by their index k.                                                       *)
(***************************************************************************)
\* no node: None
NoNode == 0

MkNode(kind, name, types, allow, extra, validators) ==
    [kind |-> kind, name |-> name, description |-> NoName, types |-> types,
     allow_extra_fields |-> allow, extra |-> extra, validators |-> validators,
     load_default |-> <<>>]

Leaf(kind)           == MkNode(kind, NoName, <<>>, "None", NoNode, <<>>)
Unary(kind, c)       == MkNode(kind, NoName, <<c>>, "None", NoNode, <<>>)
Nary(kind, cs)       == MkNode(kind, NoName, cs, "None", NoNode, <<>>)
ObjectExtra(cs, e)   == MkNode("Object", NoName, cs, "Field", e, <<>>)
ObjectPolicy(cs, b)  == MkNode("Object", NoName, cs, b, NoNode, <<>>)
DictDefault(cs, d)   == MkNode("Dict", NoName, cs, "None", d, <<>>)
Named(node, name)    == [node EXCEPT !.name = name]
Described(node, d)   == [node EXCEPT !.description = d]
Validated(node, vs)  == [node EXCEPT !.validators = vs]
Defaulted(node, d)   == [node EXCEPT !.load_default = d]

\* lv.AnyOf(choices)
AnyOf(choices) == [type |-> "AnyOf", choices |-> choices]

\* isinstance(schema, lt.Modifier): lt.Optional and the other wrappers
IsModifier(s) == s.kind \in {"Optional", "DumpOnly"}

\* isinstance(schema, lr.TypeRef)
IsTypeRef(s) == s.kind = "TypeRef"

\* schema.inner_type of a Modifier or a TypeRef
InnerType(s) == s.types[1]

\* the nodes of a graph
NodesOf(g) == DOMAIN g

\* lv.Length(exact=exact, min=min, max=max)
Length(exact, min, max) ==
    [type |-> "Length", exact |-> exact, min |-> min, max |-> max]

\* lv.NoneOf(values)
NoneOf(values) == [type |-> "NoneOf", choices |-> values]

\* find_validators(schema, validator_type)
FindValidators(s, type) == SelectSeq(s.validators, LAMBDA v : v.type = type)

(***************************************************************************)
(* _count_schema_usages                                                    *)
(***************************************************************************)
\* the walk forgets the extra field of an Object and the default of a Dict
CountedChildrenFixedOnly(s) ==
    IF s.kind \in {"List", "Tuple", "Object", "Dict", "OneOf"} \/ IsModifier(s)
    THEN s.types ELSE <<>>

\* the children _count_schema_usages recurses into, in the order of the calls
CountedChildren(s) ==
    CASE s.kind = "List"   -> s.types
      [] s.kind = "Tuple"  -> s.types
      [] s.kind = "Object" ->
            s.types \o (IF s.allow_extra_fields = "Field" THEN <<s.extra>>
                        ELSE <<>>)
      [] s.kind = "Dict"   ->
            s.types \o (IF s.extra # NoNode THEN <<s.extra>> ELSE <<>>)
      [] s.kind = "OneOf"  -> s.types
      [] IsModifier(s)     -> <<InnerType(s)>>
      [] OTHER             -> <<>>

\* the deepest recursion the interpreter allows before RecursionError; no
\* compilation of a well-formed graph comes near it
RecursionLimit == 2 * Len(schema) + 2

(***************************************************************************)
(* JSON fragments.  A fragment is the OrderedDict _json_schema returns:    *)
(* `keys` are its keys in insertion order and the other fields hold the    *)
(* values of the keys present.  `items` holds the fragments below `items`, *)
(* `properties` or `anyOf`, `extra` the fragment below                     *)
(* `additionalProperties` and `additional` its boolean value.  `of` is not *)
(* part of the JSON: it records the node whose call built the dict.        *)
(***************************************************************************)
EmptyJs(n) ==
    [of |-> n, keys |-> <<>>, ref |-> NoName, title |-> NoName,
     description |-> NoName, enum |-> {}, not |-> {}, type |-> "",
     items |-> <<>>, required |-> <<>>, additional |-> "", extra |-> <<>>,
     default |-> <<>>, minLength |-> <<>>, maxLength |-> <<>>]

KeySet(js) == {js.keys[i] : i \in DOMAIN js.keys}

\* js[key] = ...: a new key goes last
WithKey(js, key) ==
    IF key \in KeySet(js) THEN js ELSE [js EXCEPT !.keys = Append(@, key)]

\* {'$ref': '#/definitions/' + name}
RefJs(n, name) == [WithKey(EmptyJs(n), "$ref") EXCEPT !.ref = name]

\* schema.dump(value): the wire form of a domain value, as serialised by
\* the node it is dumped through
Dump(s, value) == [by |-> s.kind, wire |-> value]

\* every default that is not None counts
TruthyUnlessNone(value) == TRUE

\* truth value of a domain value
Truthy(value) == value # ""

\* the names bound at module level in jsonschema.py, besides the imports
ModuleGlobals ==
    {"find_validators", "Definition", "_sanitize_name", "json_schema",
     "_count_schema_usages", "_json_schema"}

\* only the first validator is looked at
IntersectionOfFirst(vs) == vs[1].choices

\* the choice sets are united
RECURSIVE IntersectionAsUnion(_)
IntersectionAsUnion(vs) ==
    IF Len(vs) = 1 THEN vs[1].choices
    ELSE vs[1].choices \cup IntersectionAsUnion(Tail(vs))

RECURSIVE Intersection(_)
Intersection(vs) ==
    IF Len(vs) = 1 THEN vs[1].choices
    ELSE vs[1].choices \cap Intersection(Tail(vs))

RECURSIVE Union(_)
Union(vs) ==
    IF vs = <<>> THEN {} ELSE vs[1].choices \cup Union(Tail(vs))

\* an outcome of a _json_schema call: the fragment returned or the exception
\* raised ("" for none), and the calls made in order
Returned(js, cs) == [js |-> js, exc |-> "", calls |-> cs]
Raised(exc, cs)  == [js |-> EmptyJs(NoNode), exc |-> exc, calls |-> cs]

\* the record of one _json_schema call: how = "ref" when it returned a $ref,
\* "wrap" when it passed a Modifier or a TypeRef through, "body" when it
\* built the node's own fragment
Call(n, how, force_render) ==
    <<[schema |-> n, how |-> how, force_render |-> force_render]>>

\* [k for k, v in fields if not isinstance(v, lt.Optional)]
RequiredOf(g, types) ==
    SelectSeq([k \in DOMAIN types |-> k],
              LAMBDA k : g[types[k]].kind # "Optional")

(***************************************************************************)
(* _json_schema(schema, definitions, force_render)                         *)
(***************************************************************************)
\* line 112: the call answers with a $ref
AnswersRef(n, force_render) == n \in DOMAIN definitions /\ ~force_render

\* lines 128-132: the new OrderedDict with title and description
Titled(n) ==
    LET s   == schema[n]
        js0 == EmptyJs(n)
        js1 == IF s.name # NoName
               THEN [WithKey(js0, "title") EXCEPT !.title = s.name] ELSE js0
    IN  IF s.description # NoName
        THEN [WithKey(js1, "description") EXCEPT !.description = s.description]
        ELSE js1

\* lines 147-154: the NoneOf validators add `not`
WithNoneOf(n, js) ==
    LET s       == schema[n]
        choices == Union(FindValidators(s, "NoneOf"))
    IN  IF choices # {}
        THEN [WithKey(js, "not") EXCEPT
                 !.not = {Dump(s, choice) : choice \in choices}]
        ELSE js

\* lines 222-230, once the extra field's fragment (if one is needed) is known
WithAdditionalProperties(s, js, extra) ==
    IF s.allow_extra_fields \in {"True", "False"}
    THEN [WithKey(js, "additionalProperties") EXCEPT
             !.additional = s.allow_extra_fields]
    ELSE IF s.allow_extra_fields = "Field"
    THEN IF schema[s.extra].kind = "Any"
         THEN [WithKey(js, "additionalProperties") EXCEPT !.additional = "True"]
         ELSE [WithKey(js, "additionalProperties") EXCEPT !.extra = <<extra>>]
    ELSE js

\* truth value of None or a number
TruthyNumber(v) == v # <<>> /\ v[1] # 0

\* a or b
Or(a, b) == IF TruthyNumber(a) THEN a ELSE b

\* max(values), min(values) of a non-empty list of numbers and Nones: Python
\* 3 raises TypeError when it compares None, which it does as soon as the
\* list has a None and another element; Python 2 orders None below every
\* number
Extreme(values, greatest) ==
    LET numbers == {values[k][1] : k \in {i \in DOMAIN values :
                                             values[i] # <<>>}}
        hasNone == \E k \in DOMAIN values : values[k] = <<>>
        pick    == IF greatest
                   THEN CHOOSE m \in numbers : \A x \in numbers : x <= m
                   ELSE CHOOSE m \in numbers : \A x \in numbers : m <= x
    IN  IF process.python = "3" /\ hasNone /\ Len(values) > 1
        THEN [exc |-> "TypeError", value |-> <<>>]
        ELSE IF numbers = {} \/ (hasNone /\ ~greatest)
        THEN [exc |-> "", value |-> <<>>]
        ELSE [exc |-> "", value |-> <<pick>>]

\* lines 161-168: minLength and maxLength from the Length validators
WithLength(s, js) ==
    LET vs    == FindValidators(s, "Length")
        any(f(_)) == \E k \in DOMAIN vs : TruthyNumber(f(vs[k]))
        exact(v) == v.exact
        min(v)   == v.min
        max(v)   == v.max
        low   == Extreme([k \in DOMAIN vs |-> Or(vs[k].exact, vs[k].min)],
                         TRUE)
        high  == Extreme([k \in DOMAIN vs |-> Or(vs[k].exact, vs[k].max)],
                         FALSE)
        js1   == IF any(min) \/ any(exact)
                 THEN [WithKey(js, "minLength") EXCEPT !.minLength = low.value]
                 ELSE js
        js2   == IF any(max) \/ any(exact)
                 THEN [WithKey(js1, "maxLength") EXCEPT
                          !.maxLength = high.value]
                 ELSE js1
    IN  IF vs = <<>> THEN Returned(js, <<>>)
        ELSE IF (any(min) \/ any(exact)) /\ low.exc # ""
        THEN Raised(low.exc, <<>>)
        ELSE IF (any(max) \/ any(exact)) /\ high.exc # ""
        THEN Raised(high.exc, <<>>)
        ELSE Returned(js2, <<>>)

RECURSIVE JsonSchemaNode(_, _, _)
RECURSIVE JsonSchemaEach(_, _)
RECURSIVE KindFragment(_, _, _)

\* [_json_schema(t, definitions=definitions) for t in types]: the outcomes
\* up to the first exception; js is here the sequence of the fragments
JsonSchemaEach(types, depth) ==
    IF types = <<>> THEN [js |-> <<>>, exc |-> "", calls |-> <<>>]
    ELSE LET first == JsonSchemaNode(Head(types), FALSE, depth) IN
         IF first.exc # ""
         THEN [js |-> <<>>, exc |-> first.exc, calls |-> first.calls]
         ELSE LET rest == JsonSchemaEach(Tail(types), depth) IN
              [js |-> <<first.js>> \o rest.js, exc |-> rest.exc,
               calls |-> first.calls \o rest.calls]

\* lines 156-257: the keys of the node's kind, added to js
KindFragment(n, js, depth) ==
    LET s == schema[n]
        typed(t) == [WithKey(js, "type") EXCEPT !.type = t]
    IN
    CASE s.kind = "Any" -> Returned(js, <<>>)
      [] s.kind = "String"  -> WithLength(s, typed("string"))
      [] s.kind = "Integer" -> Returned(typed("integer"), <<>>)
      [] s.kind = "Number"  -> Returned(typed("number"), <<>>)
      [] s.kind = "Boolean" -> Returned(typed("boolean"), <<>>)
      [] s.kind \in {"List", "Tuple"} ->
            LET r == JsonSchemaEach(s.types, depth + 1) IN
            IF r.exc # "" THEN Raised(r.exc, r.calls)
            ELSE Returned([WithKey(typed("array"), "items") EXCEPT
                              !.items = r.js], r.calls)
      [] s.kind = "Object" ->
            LET r  == JsonSchemaEach(s.types, depth + 1)
                js1 == [WithKey(typed("object"), "properties") EXCEPT
                           !.items = r.js]
                required == RequiredOf(schema, s.types)
                js2 == IF required # <<>>
                       THEN [WithKey(js1, "required") EXCEPT
                                !.required = required]
                       ELSE js1
            IN
            IF r.exc # "" THEN Raised(r.exc, r.calls)
            ELSE IF s.allow_extra_fields = "Field"
                    /\ schema[s.extra].kind # "Any"
            THEN LET e == JsonSchemaNode(s.extra, FALSE, depth + 1) IN
                 IF e.exc # "" THEN Raised(e.exc, r.calls \o e.calls)
                 ELSE Returned(WithAdditionalProperties(s, js2, e.js),
                               r.calls \o e.calls)
            ELSE Returned(WithAdditionalProperties(s, js2, EmptyJs(NoNode)),
                          r.calls)
      [] s.kind = "Dict" ->
            LET r  == JsonSchemaEach(s.types, depth + 1)
                js1 == IF r.js # <<>>
                       THEN [WithKey(typed("object"), "properties") EXCEPT
                                !.items = r.js]
                       ELSE typed("object")
                required == RequiredOf(schema, s.types)
                js2 == IF required # <<>>
                       THEN [WithKey(js1, "required") EXCEPT
                                !.required = required]
                       ELSE js1
            IN
            IF r.exc # "" THEN Raised(r.exc, r.calls)
            \* line 241 reads the name fixed_properties
            ELSE IF "fixed_properties" \notin ModuleGlobals
            THEN Raised("NameError", r.calls)
            ELSE IF s.extra # NoNode
            THEN LET e == JsonSchemaNode(s.extra, FALSE, depth + 1) IN
                 IF e.exc # "" THEN Raised(e.exc, r.calls \o e.calls)
                 ELSE Returned([WithKey(js2, "additionalProperties") EXCEPT
                                   !.extra = <<e.js>>], r.calls \o e.calls)
            ELSE Returned(js2, r.calls)
      [] s.kind = "OneOf" ->
            LET r == JsonSchemaEach(s.types, depth + 1) IN
            IF r.exc # "" THEN Raised(r.exc, r.calls)
            ELSE Returned([WithKey(js, "anyOf") EXCEPT !.items = r.js],
                          r.calls)
      [] s.kind = "Constant" -> Returned(WithKey(js, "const"), <<>>)
      [] OTHER -> Returned(js, <<>>)

JsonSchemaNode(n, force_render, depth) ==
    LET s == schema[n] IN
    IF depth > RecursionLimit THEN Raised("RecursionError", <<>>)
    ELSE IF AnswersRef(n, force_render)
    THEN Returned(RefJs(n, definitions[n].name), Call(n, "ref", force_render))
    ELSE IF IsModifier(s)
    THEN LET r == JsonSchemaNode(InnerType(s), FALSE, depth + 1) IN
         IF r.exc # "" THEN Raised(r.exc, Call(n, "wrap", force_render) \o r.calls)
         ELSE IF s.kind = "Optional" /\ s.load_default # <<>>
                 /\ Truthy(s.load_default[1])
         THEN Returned([WithKey(r.js, "default") EXCEPT
                           !.default = <<Dump(schema[InnerType(s)],
                                              s.load_default[1])>>],
                       Call(n, "wrap", force_render) \o r.calls)
         ELSE Returned(r.js, Call(n, "wrap", force_render) \o r.calls)
    ELSE IF IsTypeRef(s)
    THEN LET r == JsonSchemaNode(InnerType(s), force_render, depth + 1) IN
         [r EXCEPT !.calls = Call(n, "wrap", force_render) \o @]
    ELSE LET js    == Titled(n)
             anyOf == FindValidators(s, "AnyOf")
         IN
         IF anyOf # <<>>
         THEN IF Intersection(anyOf) = {}
              THEN Raised("ValueError", Call(n, "body", force_render))
              ELSE Returned([WithKey(js, "enum") EXCEPT
                                !.enum = {Dump(s, choice) :
                                            choice \in Intersection(anyOf)}],
                            Call(n, "body", force_render))
         ELSE LET r == KindFragment(n, WithNoneOf(n, js), depth) IN
              [r EXCEPT !.calls = Call(n, "body", force_render) \o @]

(***************************************************************************)
(* json_schema(schema): the top-level call, definitions=None               *)
(***************************************************************************)
NoResult == [state |-> "pending", exc |-> "", js |-> EmptyJs(NoNode),
             definitions |-> <<>>]

\* the dict is empty: no key
EmptyDict == <<>>

\* the orders in which a dict with these keys may be iterated: a plain dict
\* promises none (the package runs on Python 2 as well, see .compat)
RECURSIVE IterationOrders(_)
IterationOrders(keys) ==
    IF keys = {} THEN {<<>>}
    ELSE UNION {{<<k>> \o rest : rest \in IterationOrders(keys \ {k})} :
                k \in keys}

\* lines 36-38: definitions is None, a new dict is made for the call
NewDefinitions == EmptyDict

\* the process before its first json_schema call, on the given interpreter
Started(python) ==
    [python |-> python, iterated |-> EmptyDict, returned |-> <<>>]

\* iteritems/itervalues of the dict `which` of a call whose counts were
\* inserted in the order `reached`: a dict promises no order, but in one
\* process the order is a function of the keys' hashes and of the
\* insertions, so a dict filled the same way as one iterated before
\* iterates as that one did
IteratesAs(which, keys, order) ==
    (reached \in DOMAIN process.iterated
        /\ process.iterated[reached][which] \in IterationOrders(keys))
    => order = process.iterated[reached][which]

\* the process once the dict `which` was seen to iterate in this order
Iterated(which, order) ==
    LET none == [counts |-> <<>>, definitions |-> <<>>]
        seen == IF reached \in DOMAIN process.iterated
                THEN process.iterated[reached] ELSE none
    IN  [process EXCEPT !.iterated =
            [r \in DOMAIN @ \cup {reached} |->
                IF r = reached THEN [seen EXCEPT ![which] = order] ELSE @[r]]]

\* {definition.name for definition in itervalues(definitions)}
DefinitionNames(defs) == {defs[n].name : n \in DOMAIN defs}

\* lines 53-55: the first i >= start with def_name + str(i) unused
RECURSIVE FirstUnused(_, _, _)
FirstUnused(def_name, names, i) ==
    IF (def_name \o Str(i)) \in names
    THEN FirstUnused(def_name, names, i + 1) ELSE i

\* lines 50-56: the name given to a node when `names` are taken
DefinitionName(s, names) ==
    LET def_name == IF s.name # NoName THEN SanitizeName(s.name)
                    ELSE DefaultName
    IN  IF def_name \in names
        THEN def_name \o Str(FirstUnused(def_name, names, 1))
        ELSE def_name

\* a definition only from the third use on
SkippedUpToTwo(count) == count <= 2

\* lines 46-47: the count that is skipped
Skipped(count) == count = 1

\* lines 45-59: one iteration of the loop over counts
Allocate(defs, n) ==
    IF Skipped(counts[n]) \/ n \in DOMAIN defs THEN defs
    ELSE defs @@ (n :> [name |-> DefinitionName(schema[n],
                                                DefinitionNames(defs)),
                        jsonschema |-> <<>>])

\* lines 45-59: the loop, iterating in the given order
RECURSIVE AllocateAll(_, _)
AllocateAll(defs, order) ==
    IF order = <<>> THEN defs
    ELSE AllocateAll(Allocate(defs, Head(order)), Tail(order))

\* lines 61-67: the loop over definitions in the given order, up to the
\* first exception; defs is the dict so far, cs the calls so far
RECURSIVE RenderAll(_, _, _)
RenderAll(defs, cs, order) ==
    IF order = <<>> THEN [defs |-> defs, exc |-> "", calls |-> cs]
    ELSE IF defs[Head(order)].jsonschema # <<>>
    THEN RenderAll(defs, cs, Tail(order))
    ELSE LET r == JsonSchemaNode(Head(order), TRUE, 1) IN
         IF r.exc # ""
         THEN [defs |-> defs, exc |-> r.exc, calls |-> cs \o r.calls]
         ELSE RenderAll([defs EXCEPT ![Head(order)].jsonschema = <<r.js>>],
                        cs \o r.calls, Tail(order))

\* lines 71-72: {definition.name: definition.jsonschema for ...}
DefinitionsByName(defs) ==
    [name \in DefinitionNames(defs) |->
        (CHOOSE n \in DOMAIN defs : defs[n].name = name)]

\* lines 36-43: the call is entered, _count_schema_usages(schema, counts) is
\* about to run
JsonSchema ==
    /\ pc = "call"
    /\ pc' = "count"
    /\ counts' = EmptyDict
    /\ reached' = <<>>
    /\ definitions' = NewDefinitions
    /\ todo' = <<[schema |-> root, depth |-> 1]>>
    /\ expanded' = [n \in NodesOf(schema) |-> 0]
    /\ calls' = <<>>
    /\ result' = NoResult
    /\ UNCHANGED <<schema, root, process>>

\* lines 76-108: one call of _count_schema_usages, up to its recursive calls
CountSchemaUsages ==
    /\ pc = "count"
    /\ todo # <<>>
    /\ LET n == Head(todo).schema
           depth == Head(todo).depth
           s == schema[n]
           inner(types) == [k \in DOMAIN types |->
                              [schema |-> types[k], depth |-> depth + 1]]
       IN
       IF depth > RecursionLimit
       THEN /\ pc' = "raised"
            /\ result' = [NoResult EXCEPT !.state = "raised",
                                          !.exc = "RecursionError"]
            /\ UNCHANGED <<todo, counts, reached, expanded>>
       ELSE IF n \in DOMAIN counts
       THEN /\ counts' = [counts EXCEPT ![n] = @ + 1]
            /\ todo' = Tail(todo)
            /\ UNCHANGED <<pc, result, reached, expanded>>
       ELSE IF IsTypeRef(s)
       THEN /\ todo' = inner(<<InnerType(s)>>) \o Tail(todo)
            /\ UNCHANGED <<pc, result, counts, reached, expanded>>
       ELSE /\ counts' = counts @@ (n :> 1)
            /\ reached' = Append(reached, n)
            /\ expanded' = [expanded EXCEPT ![n] = @ + 1]
            /\ todo' = inner(CountedChildren(s)) \o Tail(todo)
            /\ UNCHANGED <<pc, result>>
    /\ UNCHANGED <<schema, root, definitions, calls, process>>

\* lines 45-59: a Definition for every node counted more than once
AllocateDefinitions ==
    /\ pc = "count"
    /\ todo = <<>>
    \* the keys that are skipped change nothing wherever they come
    /\ LET keys == {n \in DOMAIN counts : ~Skipped(counts[n])} IN
       \E order \in IterationOrders(keys) :
          /\ IteratesAs("counts", keys, order)
          /\ definitions' = AllocateAll(definitions, order)
          /\ process' = Iterated("counts", order)
    /\ pc' = "render"
    /\ UNCHANGED <<schema, root, todo, counts, reached, expanded, calls,
                   result>>

\* lines 61-67: the body of every definition is rendered
RenderDefinitions ==
    /\ pc = "render"
    /\ \E order \in IterationOrders(DOMAIN definitions) :
          LET r == RenderAll(definitions, calls, order) IN
          /\ IteratesAs("definitions", DOMAIN definitions, order)
          /\ process' = Iterated("definitions", order)
          /\ definitions' = r.defs
          /\ calls' = r.calls
          /\ IF r.exc # ""
             THEN /\ pc' = "raised"
                  /\ result' = [NoResult EXCEPT !.state = "raised",
                                                !.exc = r.exc]
             ELSE /\ pc' = "root"
                  /\ UNCHANGED result
    /\ UNCHANGED <<schema, root, todo, counts, reached, expanded>>

\* lines 69-73: the root is rendered and the document returned
ReturnDocument ==
    /\ pc = "root"
    /\ LET r == JsonSchemaNode(root, FALSE, 1) IN
       /\ calls' = calls \o r.calls
       /\ IF r.exc # ""
          THEN /\ pc' = "raised"
               /\ result' = [NoResult EXCEPT !.state = "raised",
                                             !.exc = r.exc]
          ELSE /\ pc' = "done"
               /\ result' =
                    [state |-> "returned", exc |-> "",
                     js |-> IF DOMAIN definitions # {}
                            THEN WithKey(r.js, "definitions") ELSE r.js,
                     definitions |->
                        IF DOMAIN definitions # {}
                        THEN [name \in DefinitionNames(definitions) |->
                                 definitions[DefinitionsByName(definitions)
                                                [name]].jsonschema[1]]
                        ELSE EmptyDict]
    /\ UNCHANGED <<schema, root, todo, counts, reached, expanded, definitions,
                   process>>

Next ==
    \/ JsonSchema
    \/ CountSchemaUsages
    \/ AllocateDefinitions
    \/ RenderDefinitions
    \/ ReturnDocument

(***************************************************************************)
(* The schema graphs json_schema is called with.  Lollipop types are       *)
(* immutable and built children first, so a node's children are nodes      *)
(* built before it (here: of a higher index) and only a TypeRef, which     *)
(* resolves its inner type lazily, can point anywhere, an ancestor         *)
(* included.  A TypeRef resolves to a registered type, not to a TypeRef.   *)
(***************************************************************************)
\* the nodes that may stand at index i of a graph of `size` nodes
StructuralNodes(i, size) ==
    LET later == (i + 1) .. size IN
    {Leaf("String"), Leaf("Any")}
    \cup {Unary("List", c) : c \in later}
    \cup {Unary("Optional", c) : c \in later}
    \cup {Nary("Tuple", <<c, d>>) : c \in later, d \in later}
    \cup {Nary("OneOf", <<c, d>>) : c \in later, d \in later}
    \cup {Nary("Object", <<c>>) : c \in later}
    \cup {ObjectExtra(<<c>>, e) : c \in later, e \in later}
    \cup {DictDefault(<<>>, d) : d \in later}
    \cup {Unary("TypeRef", t) : t \in (1 .. size) \ {i}}

RECURSIVE StructuralGraphsFrom(_, _)
StructuralGraphsFrom(i, size) ==
    IF i > size THEN {<<>>}
    ELSE {<<s>> \o rest : s \in StructuralNodes(i, size),
                          rest \in StructuralGraphsFrom(i + 1, size)}

\* the nodes a node refers to
Successors(g, n) ==
    {g[n].types[k] : k \in DOMAIN g[n].types}
    \cup (IF g[n].extra # NoNode THEN {g[n].extra} ELSE {})

RECURSIVE ReachableFrom(_, _)
ReachableFrom(g, seen) ==
    LET more == seen \cup UNION {Successors(g, n) : n \in seen} IN
    IF more = seen THEN seen ELSE ReachableFrom(g, more)

WellFormed(g) ==
    /\ \A n \in NodesOf(g) :
          IsTypeRef(g[n]) => ~IsTypeRef(g[InnerType(g[n])])
    /\ ReachableFrom(g, {1}) = NodesOf(g)

StructuralGraphs ==
    {g \in StructuralGraphsFrom(1, MaxNodes) : WellFormed(g)}

\* the interpreters json_schema runs on: Python 2 and 3.  The call takes
\* the same course on both unless it compares None with a number (lines 165
\* and 168), so for a graph without Length validators one stands for both
Interpreters(g) ==
    IF \E n \in NodesOf(g) : FindValidators(g[n], "Length") # <<>>
    THEN {"2", "3"} ELSE {"3"}

\* before the call
Idle ==
    /\ pc = "call"
    /\ todo = <<>>
    /\ counts = EmptyDict
    /\ reached = <<>>
    /\ expanded = [n \in NodesOf(schema) |-> 0]
    /\ definitions = EmptyDict
    /\ calls = <<>>
    /\ result = NoResult
    /\ process \in {Started(python) : python \in Interpreters(schema)}

Init ==
    /\ schema \in StructuralGraphs
    /\ root = 1
    /\ Idle

Spec == Init /\ [][Next]_vars

(***************************************************************************)
(* The naming family: an Object whose fields use each of a few named       *)
(* String nodes twice, as in test_definition_name_conflict_resolving.      *)
(***************************************************************************)
DeclaredNames ==
    {NoName,
     <<"N", "a", "m", "e">>,
     <<"N", "a", "m", "e", "1">>,
     <<"a", " ", "b">>,
     <<"a", "_", "b">>}

NamingGraphs ==
    LET shared == 2 .. (MaxShared + 1)
        fields == [k \in 1 .. (2 * MaxShared) |->
                      IF k <= MaxShared THEN k + 1 ELSE k + 1 - MaxShared]
    IN  {<<Nary("Object", fields)>> \o [k \in 1 .. MaxShared |->
                                          Named(Leaf("String"), names[k])] :
            names \in [1 .. MaxShared -> DeclaredNames]}

NamingInit ==
    /\ schema \in NamingGraphs
    /\ root = 1
    /\ Idle

NamingSpec == NamingInit /\ [][Next]_vars

(***************************************************************************)
(* The field family: an Object or a Dict whose field types are plain,      *)
(* Optional, or wrapped in another Modifier, as in                         *)
(* test_object_optional_fields_wrapped_in_other_modifiers and              *)
(* test_fixed_fields_dict_schema.  Node 1 is the root, the next MaxFields  *)
(* nodes are field types, the MaxFields after them what these wrap, and    *)
(* the last node is an Integer.                                            *)
(***************************************************************************)
FieldGraphs ==
    LET last   == 2 * MaxFields + 2
        types  == [(1 .. MaxFields) -> (2 .. (MaxFields + 1))]
        roots  == {Nary("Object", fs) : fs \in types}
                  \cup {ObjectPolicy(fs, b) : fs \in types,
                                              b \in {"True", "False"}}
                  \cup {ObjectExtra(fs, last) : fs \in types}
                  \cup {DictDefault(fs, NoNode) : fs \in types}
                  \cup {DictDefault(fs, last) : fs \in types}
                  \cup {DictDefault(<<>>, last)}
        outer(i) == {Leaf("String"), Unary("Optional", i + MaxFields),
                     Unary("DumpOnly", i + MaxFields)}
        inner    == {Leaf("Integer"), Unary("Optional", last)}
    IN  {<<r>> \o os \o is \o <<Leaf("Integer")>> :
            r \in roots,
            os \in {f \in [1 .. MaxFields ->
                             UNION {outer(i) : i \in 2 .. (MaxFields + 1)}] :
                       \A k \in 1 .. MaxFields : f[k] \in outer(k + 1)},
            is \in [1 .. MaxFields -> inner]}

FieldInit ==
    /\ schema \in FieldGraphs
    /\ root = 1
    /\ Idle

FieldSpec == FieldInit /\ [][Next]_vars

(***************************************************************************)
(* The validator family: node 2 carries AnyOf and NoneOf validators, a     *)
(* name and a description; it is compiled on its own or below node 1; its  *)
(* child, node 3, may itself carry an AnyOf that allows nothing.           *)
(***************************************************************************)
Values == {"a", "b"}

Validators ==
    {AnyOf(choices) : choices \in SUBSET Values}
    \cup {NoneOf({}), NoneOf({"a"})}

RECURSIVE ValidatorLists(_)
ValidatorLists(n) ==
    IF n = 0 THEN {<<>>}
    ELSE ValidatorLists(n - 1)
         \cup {Append(vs, v) : vs \in {l \in ValidatorLists(n - 1) :
                                         Len(l) = n - 1},
                               v \in Validators}

ValidatorGraphs ==
    LET tops   == {Unary("List", 2), Nary("Tuple", <<2, 2>>),
                   Unary("TypeRef", 2)}
        mids   == {Leaf("String"), Unary("List", 3), Nary("Object", <<3>>),
                   DictDefault(<<>>, 3)}
        leaves == {Leaf("String"), Validated(Leaf("String"), <<AnyOf({})>>)}
    IN  {<<top, Described(Named(Validated(mid, vs), name), d), leaf>> :
            top \in tops, mid \in mids, leaf \in leaves,
            vs \in ValidatorLists(MaxValidators),
            name \in {NoName, <<"N">>}, d \in {NoName, <<"d">>}}

ValidatorInit ==
    /\ schema \in ValidatorGraphs
    /\ root \in {1, 2}
    /\ Idle

ValidatorSpec == ValidatorInit /\ [][Next]_vars

(***************************************************************************)
(* Notions of the claims, defined on the graph and on the document and not *)
(* through the tables json_schema keeps.                                    *)
(***************************************************************************)
\* the node a reference chain ends at
RECURSIVE Resolve(_, _)
Resolve(g, n) == IF IsTypeRef(g[n]) THEN Resolve(g, InnerType(g[n])) ELSE n

\* the places of node p that hold a schema: its children and its extra
\* field, as pairs <<p, slot>>; slot 0 is the extra one
Slots(g, p) ==
    {<<p, k>> : k \in DOMAIN g[p].types}
    \cup (IF g[p].extra # NoNode THEN {<<p, 0>>} ELSE {})

SlotTarget(g, slot) ==
    IF slot[2] = 0 THEN g[slot[1]].extra ELSE g[slot[1]].types[slot[2]]

\* the number of places node n is reached from, in the graph below r: the
\* slots of the nodes below r that lead to n, and r itself
Places(g, r, n) ==
    Cardinality({slot \in UNION {Slots(g, p) :
                                   p \in {q \in ReachableFrom(g, {r}) :
                                            ~IsTypeRef(g[q])}} :
                    Resolve(g, SlotTarget(g, slot)) = n})
    + (IF Resolve(g, r) = n THEN 1 ELSE 0)

\* the nodes proper (no TypeRef) of the graph below r
Reached(g, r) == {n \in ReachableFrom(g, {r}) : ~IsTypeRef(g[n])}

\* n lies on a cycle: it reaches itself
OnCycle(g, n) == n \in ReachableFrom(g, Successors(g, n))

\* the fragments of a fragment, itself included
RECURSIVE Fragments(_)
Fragments(js) ==
    {js} \cup UNION {Fragments(js.items[k]) : k \in DOMAIN js.items}
         \cup UNION {Fragments(js.extra[k]) : k \in DOMAIN js.extra}

\* the number of keys of a fragment that hold {"$ref": name}, at any depth
RECURSIVE RefCount(_, _)
RECURSIVE RefCountEach(_, _)
RefCountEach(fs, name) ==
    IF fs = <<>> THEN 0
    ELSE RefCount(Head(fs), name) + RefCountEach(Tail(fs), name)
RefCount(js, name) ==
    (IF "$ref" \in KeySet(js) /\ js.ref = name THEN 1 ELSE 0)
    + RefCountEach(js.items, name) + RefCountEach(js.extra, name)

\* the number of {"$ref": name} in the returned document: in the root
\* fragment and in the bodies under `definitions`
RECURSIVE RefCountBodies(_, _)
RefCountBodies(names, name) ==
    IF names = {} THEN 0
    ELSE LET some == CHOOSE x \in names : TRUE IN
         RefCount(result.definitions[some], name)
         + RefCountBodies(names \ {some}, name)

DocumentRefs(name) ==
    RefCount(result.js, name)
    + RefCountBodies(DOMAIN result.definitions, name)

\* every fragment of the returned document
DocumentFragments ==
    Fragments(result.js)
    \cup UNION {Fragments(result.definitions[name]) :
                  name \in DOMAIN result.definitions}

\* the entries of `definitions` in the returned document that belong to n
EntriesOf(n) ==
    {name \in DOMAIN result.definitions :
        n \in DOMAIN definitions /\ definitions[n].name = name}

\* the calls of _json_schema on n that built its fragment in place (not as
\* the body of its definition), and the calls that answered with a $ref
InlineCalls(n) ==
    {k \in DOMAIN calls : calls[k].schema = n /\ calls[k].how # "ref"
                          /\ ~calls[k].force_render}
RefCalls(n) == {k \in DOMAIN calls : calls[k].schema = n /\ calls[k].how = "ref"}

\* the Objects of the document whose extra field n was written as the bare
\* `true` of line 227
WrittenAsTrue(n) ==
    {js \in DocumentFragments :
        /\ js.of # NoNode
        /\ "additionalProperties" \in KeySet(js)
        /\ js.extra = <<>>
        /\ schema[js.of].allow_extra_fields = "Field"
        /\ schema[js.of].extra = n}

(***************************************************************************)
(* C1: in a returned document, a node reached from two or more places has  *)
(* exactly one entry under `definitions` and each of those places holds    *)
(* {"$ref": its name}; a node reached once has no entry and no $ref; and   *)
(* when no node is reached twice the document has no `definitions` key.    *)
(***************************************************************************)
C1_SharedNodesBecomeDefinitions ==
    pc = "done" =>
        /\ \A n \in Reached(schema, root) :
              IF Places(schema, root, n) >= 2
              THEN /\ Cardinality(EntriesOf(n)) = 1
                   /\ DocumentRefs(definitions[n].name)
                         = Places(schema, root, n)
              ELSE /\ EntriesOf(n) = {}
                   /\ RefCalls(n) = {}
        /\ (\A n \in Reached(schema, root) : Places(schema, root, n) < 2)
              => "definitions" \notin KeySet(result.js)

(***************************************************************************)
(* C2: in a returned document no node is written in place at one           *)
(* occurrence and as a $ref at another; the one full rendering of a        *)
(* promoted node is the force_render call that fills its definition.       *)
(***************************************************************************)
C2_NeverInlineAndRef ==
    pc = "done" =>
        \A n \in Reached(schema, root) :
            \/ InlineCalls(n) = {} /\ WrittenAsTrue(n) = {}
            \/ RefCalls(n) = {}

(***************************************************************************)
(* C3: both passes end on every graph, cyclic ones included: the walk of   *)
(* _count_schema_usages goes through the children of a node at most once,  *)
(* _json_schema builds the fragment of a node at most once, the recursion  *)
(* never runs away, and the call ends with a document or an exception.     *)
(***************************************************************************)
BodyCalls(n) == {k \in DOMAIN calls : calls[k].schema = n /\ calls[k].how = "body"}

NoReexpansion ==
    /\ \A n \in NodesOf(schema) : expanded[n] <= 1
    /\ \A n \in NodesOf(schema) : Cardinality(BodyCalls(n)) <= 1
    /\ result.exc # "RecursionError"

Ended == pc \in {"done", "raised"}

\* what is left to do: the nodes not yet counted weigh more than the calls
\* their children can add, a pending call on a TypeRef stands for two calls
Weight(entries) ==
    Len(entries)
    + Cardinality({k \in DOMAIN entries : IsTypeRef(schema[entries[k].schema])})

MaxChildren ==
    LET sizes == {Len(CountedChildren(schema[n])) : n \in NodesOf(schema)}
    IN  CHOOSE m \in sizes : \A x \in sizes : x <= m

Uncounted == {n \in NodesOf(schema) : ~IsTypeRef(schema[n]) /\ n \notin DOMAIN counts}

StepsLeft ==
    CASE pc = "call"   -> (Len(schema) + 1) * (2 * MaxChildren + 1) + 5
      [] pc = "count"  -> Cardinality(Uncounted) * (2 * MaxChildren + 1)
                          + Weight(todo) + 3
      [] pc = "render" -> 2
      [] pc = "root"   -> 1
      [] OTHER         -> 0

\* every step of the call brings its end nearer, and only a call that has
\* returned or raised has nothing left to do
C3_BothPassesTerminate ==
    /\ []NoReexpansion
    /\ [](StepsLeft >= 0 /\ (StepsLeft = 0 <=> Ended))
    /\ [][StepsLeft' < StepsLeft]_vars

\* a graph with a cycle was compiled to a document
C3_CyclicGraphCompiled ==
    /\ pc = "done"
    /\ \E n \in NodesOf(schema) : OnCycle(schema, n)

(***************************************************************************)
(* C4: when the root reaches itself through a reference cycle, the call    *)
(* returns a document whose only keys are `$ref` and `definitions`, with   *)
(* exactly one definition for the root, named by the `$ref`, and with the  *)
(* $ref to the root inside the definitions, where the cycle closes.        *)
(***************************************************************************)
C4_SelfReferencingRoot ==
    (Ended /\ ~IsTypeRef(schema[root]) /\ OnCycle(schema, root)) =>
        /\ pc = "done"
        /\ KeySet(result.js) = {"$ref", "definitions"}
        /\ Cardinality(EntriesOf(root)) = 1
        /\ result.js.ref = definitions[root].name
        /\ RefCountBodies(DOMAIN result.definitions,
                          definitions[root].name) >= 1

(***************************************************************************)
(* C5 as claimed: after the usage analysis the nodes that have a           *)
(* definition are those counted more than once and all those that lie on a *)
(* reference cycle.                                                        *)
(***************************************************************************)
Analysed == pc \in {"render", "root", "done"}

C5_CycleNodesHaveSlots ==
    Analysed =>
        \A n \in Reached(schema, root) :
            n \in DOMAIN definitions
                <=> (Places(schema, root, n) > 1 \/ OnCycle(schema, n))

\* the nodes n reaches without passing through a node of `closed`
RECURSIVE ReachableOutside(_, _, _)
ReachableOutside(g, seen, closed) ==
    LET more == seen \cup UNION {Successors(g, n) : n \in seen \ closed} IN
    IF more = seen THEN seen ELSE ReachableOutside(g, more, closed)

(***************************************************************************)
(* C5 as amended: after the usage analysis the nodes that have a           *)
(* definition are exactly the nodes reached from more than one place, each *)
(* with one definition of its own name; every reference cycle passes       *)
(* through such a node (the one at which the walk closed it), and the      *)
(* other nodes of a cycle have none.                                       *)
(***************************************************************************)
C5_CountedTwiceHaveSlots ==
    Analysed =>
        /\ \A n \in NodesOf(schema) :
              n \in DOMAIN definitions
                 <=> (n \in Reached(schema, root)
                      /\ Places(schema, root, n) > 1)
        /\ \A n \in Reached(schema, root) : counts[n] = Places(schema, root, n)
        /\ \A n, m \in DOMAIN definitions :
              definitions[n].name = definitions[m].name => n = m
        /\ \A n \in ReachableFrom(schema, {root}) \ DOMAIN definitions :
              n \notin ReachableOutside(schema, Successors(schema, n),
                                        DOMAIN definitions)

\* a cycle was analysed and one of its nodes was left without a definition
C5_CycleNodeWithoutSlot ==
    /\ Analysed
    /\ \E n \in Reached(schema, root) :
          OnCycle(schema, n) /\ n \notin DOMAIN definitions

(***************************************************************************)
(* C6: definition names are collision-free and given in the order in which *)
(* the nodes were first reached: a node gets its sanitized declared name   *)
(* (`Type` without one) if no node reached before it holds that name, else *)
(* that name followed by the smallest positive integer that makes it       *)
(* unused; every $ref to a node carries the node's name.                   *)
(***************************************************************************)
\* the nodes that have a definition, in the order they were first reached
Promoted == SelectSeq(reached, LAMBDA n : n \in DOMAIN definitions)

BaseName(n) ==
    IF schema[n].name # NoName THEN SanitizeName(schema[n].name)
    ELSE DefaultName

NameInReachedOrder(k) ==
    LET base    == BaseName(Promoted[k])
        earlier == {definitions[Promoted[j]].name : j \in 1 .. (k - 1)}
        suffix  == CHOOSE i \in 1 .. Len(Promoted) :
                      /\ (base \o Str(i)) \notin earlier
                      /\ \A j \in 1 .. (i - 1) : (base \o Str(j)) \in earlier
    IN  IF base \in earlier THEN base \o Str(suffix) ELSE base

RefsCarryNames ==
    \A js \in DocumentFragments :
        "$ref" \in KeySet(js) => js.ref = definitions[js.of].name

C6_NamesInFirstReachedOrder ==
    /\ Analysed =>
          /\ \A k \in DOMAIN Promoted :
                definitions[Promoted[k]].name = NameInReachedOrder(k)
          /\ \A n, m \in DOMAIN definitions :
                definitions[n].name = definitions[m].name => n = m
    /\ pc = "done" => RefsCarryNames

(***************************************************************************)
(* C7: `required` of an Object fragment lists exactly the fields whose     *)
(* type, unwrapped through any chain of modifiers, meets no Optional       *)
(* (DumpOnly(Optional(T)) is left out like Optional(T)); the key is absent *)
(* when the list is empty.                                                 *)
(***************************************************************************)
RECURSIVE UnwrapsToOptional(_, _)
UnwrapsToOptional(g, n) ==
    IF g[n].kind = "Optional" THEN TRUE
    ELSE IF IsModifier(g[n]) THEN UnwrapsToOptional(g, InnerType(g[n]))
    ELSE FALSE

C7_RequiredSkipsWrappedOptional ==
    (pc = "done" /\ schema[root].kind = "Object") =>
        LET fields == schema[root].types
            required == SelectSeq([k \in DOMAIN fields |-> k],
                           LAMBDA k : ~UnwrapsToOptional(schema, fields[k]))
        IN  /\ result.js.of = root
            /\ result.js.required = required
            /\ "required" \in KeySet(result.js) <=> required # <<>>

(***************************************************************************)
(* C8: a Dict compiles without raising, to a fragment of type `object`     *)
(* with `properties` and `required` (the fixed keys whose type is not      *)
(* Optional, absent when empty) when it has fixed value types and          *)
(* `additionalProperties` when it has a default value type, and no other   *)
(* key.                                                                    *)
(***************************************************************************)
C8_DictCompiles ==
    (Ended /\ schema[root].kind = "Dict") =>
        LET s == schema[root]
            required == SelectSeq([k \in DOMAIN s.types |-> k],
                           LAMBDA k : schema[s.types[k]].kind # "Optional")
        IN  /\ pc = "done"
            /\ result.js.type = "object"
            /\ Len(result.js.items) = Len(s.types)
            /\ result.js.required = required
            /\ Len(result.js.extra) = (IF s.extra # NoNode THEN 1 ELSE 0)
            /\ KeySet(result.js) \ {"definitions"} =
                  {"type"}
                  \cup (IF s.types # <<>> THEN {"properties"} ELSE {})
                  \cup (IF required # <<>> THEN {"required"} ELSE {})
                  \cup (IF s.extra # NoNode THEN {"additionalProperties"}
                        ELSE {})

(***************************************************************************)
(* C9: the fragment of a node with AnyOf validators holds `enum`, `title`  *)
(* when a name is declared, `description` when one is declared, and no     *)
(* other key; the enum is the dump, through the node, of the choices that  *)
(* every AnyOf validator of the node allows.                               *)
(***************************************************************************)
HasAnyOf(s) == \E k \in DOMAIN s.validators : s.validators[k].type = "AnyOf"

AllowedByAll(s) ==
    {c \in Values : \A k \in DOMAIN s.validators :
                       s.validators[k].type = "AnyOf"
                          => c \in s.validators[k].choices}

\* the fragments of the returned document built for a node with AnyOf
EnumFragments ==
    {js \in DocumentFragments :
        js.of # NoNode /\ "$ref" \notin KeySet(js) /\ HasAnyOf(schema[js.of])}

C9_AnyOfRendersEnumOnly ==
    pc = "done" =>
        \A js \in EnumFragments :
            LET s == schema[js.of] IN
            /\ KeySet(js) = {"enum"}
                  \cup (IF s.name # NoName THEN {"title"} ELSE {})
                  \cup (IF s.description # NoName THEN {"description"}
                        ELSE {})
            /\ js.title = s.name
            /\ js.description = s.description
            /\ js.enum = {[by |-> s.kind, wire |-> c] : c \in AllowedByAll(s)}
            /\ js.enum # {}

\* a document holds the enum of a node whose AnyOf validators differ
C9_TwoAnyOfRendered ==
    /\ pc = "done"
    /\ \E js \in EnumFragments :
          LET vs == FindValidators(schema[js.of], "AnyOf") IN
          /\ Len(vs) >= 2
          /\ vs[1].choices # vs[2].choices
          /\ AllowedByAll(schema[js.of]) # vs[1].choices

(***************************************************************************)
(* C10: when _json_schema comes to build the fragment of a node whose      *)
(* AnyOf validators allow no common choice, json_schema raises the error   *)
(* of line 141 (a ValueError: the error kind of conflicting AnyOf          *)
(* constraints) and returns nothing: no document, no definitions.          *)
(***************************************************************************)
AllowsNothing(s) == HasAnyOf(s) /\ AllowedByAll(s) = {}

C10_EmptyAnyOfRaises ==
    /\ (\E k \in DOMAIN calls : /\ calls[k].how = "body"
                                /\ AllowsNothing(schema[calls[k].schema]))
          => /\ pc = "raised"
             /\ result = [NoResult EXCEPT !.state = "raised",
                                          !.exc = "ValueError"]
    /\ (Ended /\ AllowsNothing(schema[Resolve(schema, root)]))
          => (pc = "raised" /\ result.exc = "ValueError")

\* two AnyOf validators without a common choice, on a node below the root
C10_DisjointAnyOfRaised ==
    /\ pc = "raised"
    /\ result.exc = "ValueError"
    /\ root = 1
    /\ LET vs == FindValidators(schema[2], "AnyOf") IN
       /\ Len(vs) = 2
       /\ vs[1].choices # {} /\ vs[2].choices # {}
       /\ vs[1].choices \cap vs[2].choices = {}

(***************************************************************************)
(* The kind family: a leaf of every kind _json_schema has a branch for,    *)
(* and of kinds of lollipop.types it has none for, compiled on its own or  *)
(* below a List, an Optional, an Object or a TypeRef.                      *)
(***************************************************************************)
\* the kinds lines 115-126 and 156-255 test for
EnumeratedKinds ==
    {"Any", "String", "Number", "Integer", "Boolean", "List", "Tuple",
     "Object", "Dict", "OneOf", "Constant", "Optional", "DumpOnly", "TypeRef"}

\* types of lollipop.types no isinstance of _json_schema matches
OtherKinds == {"DateTime", "Date"}

KindGraphs ==
    LET tops   == {Unary("List", 2), Unary("Optional", 2),
                   Nary("Object", <<2>>), Unary("TypeRef", 2)}
        leaves == {Leaf(k) : k \in {"Any", "String", "Number", "Integer",
                                    "Boolean", "Constant"} \cup OtherKinds}
    IN  {<<top, Named(leaf, name)>> :
            top \in tops, leaf \in leaves, name \in {NoName, <<"N">>}}

KindInit ==
    /\ schema \in KindGraphs
    /\ root \in {1, 2}
    /\ Idle

KindSpec == KindInit /\ [][Next]_vars

(***************************************************************************)
(* C11: a graph that holds a node of a kind outside the enumerated set     *)
(* makes json_schema raise UnsupportedKindError; no fragment of a returned *)
(* document was built for such a node.                                     *)
(***************************************************************************)
C11_UnknownKindRaises ==
    /\ (Ended /\ \E n \in Reached(schema, root) :
                    schema[n].kind \notin EnumeratedKinds)
          => (pc = "raised" /\ result.exc = "UnsupportedKindError")
    /\ pc = "done" =>
          \A js \in DocumentFragments :
              js.of # NoNode => schema[js.of].kind \in EnumeratedKinds

(***************************************************************************)
(* Several json_schema calls in one process: when a call has returned or   *)
(* raised, the caller may call json_schema again, on any node of the same, *)
(* unchanged graph.  What the finished call leaves in its local variables  *)
(* is garbage: lines 36-43 make the next call's own.                       *)
(***************************************************************************)
JsonSchemaAgain ==
    /\ pc \in {"done", "raised"}
    /\ Len(process.returned) + 1 < MaxCalls
    /\ process' = [process EXCEPT
                      !.returned = Append(@, [root |-> root,
                                              result |-> result])]
    /\ \E r \in NodesOf(schema) : root' = r
    /\ pc' = "call"
    /\ UNCHANGED <<schema, todo, counts, reached, expanded, definitions,
                   calls, result>>

ProcessNext ==
    \/ Next
    \/ JsonSchemaAgain

(***************************************************************************)
(* The repeat family: an Object, a Tuple or a Dict that uses two named     *)
(* String nodes twice each, so that the names given depend on which of the *)
(* two is allocated first; any node is compiled, several times.            *)
(***************************************************************************)
RepeatGraphs ==
    LET uses == <<2, 3, 2, 3>>
        tops == {Nary("Object", uses), Nary("Tuple", uses),
                 DictDefault(uses, NoNode)}
    IN  {<<top, Named(Leaf("String"), a), Named(Leaf("String"), b)>> :
            top \in tops, a \in DeclaredNames, b \in DeclaredNames}

RepeatInit ==
    /\ schema \in RepeatGraphs
    /\ root \in NodesOf(schema)
    /\ Idle

RepeatSpec == RepeatInit /\ [][ProcessNext]_vars

(***************************************************************************)
(* C12: the json_schema calls of one process on the same root of the same  *)
(* graph all return the same document (or raise the same error), whatever  *)
(* was compiled in between; a call works on tables of its own (counts and  *)
(* definitions hold nothing but nodes of the graph below its root); and    *)
(* the definitions are named in the order in which their nodes were first  *)
(* reached.                                                                *)
(***************************************************************************)
\* what the calls of the process returned or raised, the one that has just
\* ended included
AllReturned ==
    process.returned
    \o (IF Ended THEN <<[root |-> root, result |-> result]>> ELSE <<>>)

SameRootSameDocument ==
    \A i, j \in DOMAIN AllReturned :
        AllReturned[i].root = AllReturned[j].root
           => AllReturned[i].result = AllReturned[j].result

TablesOfItsOwn ==
    pc # "call" =>
        /\ DOMAIN counts \subseteq Reached(schema, root)
        /\ DOMAIN definitions \subseteq Reached(schema, root)

C12_DeterministicInRegistrationOrder ==
    /\ SameRootSameDocument
    /\ TablesOfItsOwn
    /\ Analysed =>
          \A k \in DOMAIN Promoted :
              definitions[Promoted[k]].name = NameInReachedOrder(k)

(***************************************************************************)
(* The length family: a String with Length validators, as in               *)
(* test_string_minLength ... test_string_exact_length.                     *)
(***************************************************************************)
Lengths == {<<>>} \cup {<<v>> : v \in 0 .. MaxLength}

LengthValidators ==
    {Length(exact, min, max) :
        exact \in Lengths, min \in Lengths, max \in Lengths}

LengthGraphs ==
    {<<Validated(Leaf("String"), vs)>> :
        vs \in UNION {[1 .. n -> LengthValidators] :
                        n \in 1 .. MaxValidators}}

LengthInit ==
    /\ schema \in LengthGraphs
    /\ root = 1
    /\ Idle

LengthSpec == LengthInit /\ [][Next]_vars

(***************************************************************************)
(* C13: a String with Length validators compiles to a fragment whose       *)
(* minLength is the greatest of the validators' lower bounds (exact if     *)
(* given, else min), present when a validator has one, and whose maxLength *)
(* is the least of their upper bounds (exact if given, else max), present  *)
(* when a validator has one; a validator without the bound is left out of  *)
(* the aggregation.                                                        *)
(***************************************************************************)
\* a ?? b
Coalesce(a, b) == IF a # <<>> THEN a ELSE b

C13_LengthsAggregated ==
    Ended =>
        LET vs    == FindValidators(schema[root], "Length")
            lows  == {Coalesce(vs[k].exact, vs[k].min)[1] :
                        k \in {i \in DOMAIN vs :
                                 Coalesce(vs[i].exact, vs[i].min) # <<>>}}
            highs == {Coalesce(vs[k].exact, vs[k].max)[1] :
                        k \in {i \in DOMAIN vs :
                                 Coalesce(vs[i].exact, vs[i].max) # <<>>}}
        IN  /\ pc = "done"
            /\ KeySet(result.js) =
                  {"type"}
                  \cup (IF lows # {} THEN {"minLength"} ELSE {})
                  \cup (IF highs # {} THEN {"maxLength"} ELSE {})
            /\ lows # {} =>
                  /\ result.js.minLength # <<>>
                  /\ result.js.minLength[1] \in lows
                  /\ \A x \in lows : x <= result.js.minLength[1]
            /\ highs # {} =>
                  /\ result.js.maxLength # <<>>
                  /\ result.js.maxLength[1] \in highs
                  /\ \A x \in highs : result.js.maxLength[1] <= x

(***************************************************************************)
(* The optional family: a List of an Optional of a type T; the Optional    *)
(* has no load default, a falsy or a truthy one, as in                     *)
(* test_optional_schema_is_its_inner_type_schema and                       *)
(* test_optional_load_default_is_used_as_default.  Node 1 is the List,     *)
(* node 2 the Optional, node 3 is T and node 4 a String T may use.  Any of *)
(* them is compiled, several times.                                        *)
(***************************************************************************)
LoadDefaults == {<<>>, <<"">>, <<"x">>}

OptionalGraphs ==
    LET inner == {Leaf("String"), Leaf("Any"),
                  Named(Leaf("Integer"), <<"N">>),
                  Validated(Leaf("String"), <<AnyOf({"a"})>>),
                  Unary("List", 4), Nary("Tuple", <<4, 4>>),
                  Nary("Object", <<4>>), DictDefault(<<>>, 4),
                  Unary("DumpOnly", 4), Unary("TypeRef", 4)}
                 \cup {Defaulted(Unary("Optional", 4), d) :
                         d \in LoadDefaults}
    IN  {<<Unary("List", 2), Defaulted(Unary("Optional", 3), d), t,
           Leaf("String")>> : d \in LoadDefaults, t \in inner}

OptionalInit ==
    /\ schema \in OptionalGraphs
    /\ root \in NodesOf(schema)
    /\ Idle

OptionalSpec == OptionalInit /\ [][ProcessNext]_vars

(***************************************************************************)
(* C14: json_schema(Optional(T)) is json_schema(T) (the same definitions,  *)
(* the same error if T raises) with one difference: when load_default()    *)
(* of the Optional is truthy, the fragment has the key `default`, holding  *)
(* that default dumped through T; None and a falsy default add nothing.    *)
(* The same holds for an Optional rendered in place, as the item type of a *)
(* List.                                                                   *)
(***************************************************************************)
\* a fragment without what the comparison leaves aside
Besides(js, keys) ==
    [js EXCEPT !.keys = SelectSeq(@, LAMBDA k : k \notin keys),
               !.default = IF "default" \in keys THEN <<>> ELSE @]

AddsDefault(s) == s.load_default # <<>> /\ s.load_default[1] # ""

\* o is the fragment of the Optional s, t the fragment of its inner type
SameButDefault(s, o, t) ==
    IF AddsDefault(s)
    THEN /\ KeySet(o) = KeySet(t) \cup {"default"}
         /\ o.default = <<[by |-> schema[InnerType(s)].kind,
                           wire |-> s.load_default[1]]>>
         /\ Besides(o, {"default"}) = Besides(t, {"default"})
    ELSE o = t

C14_OptionalAddsDefault ==
    \A i, j \in DOMAIN AllReturned :
        LET called == schema[AllReturned[i].root]
            a == AllReturned[i].result
            b == AllReturned[j].result
        IN
        /\ (called.kind = "Optional"
               /\ AllReturned[j].root = InnerType(called))
              => /\ a.state = b.state
                 /\ a.exc = b.exc
                 /\ a.definitions = b.definitions
                 /\ a.state = "returned"
                       => SameButDefault(called, a.js, b.js)
        /\ (called.kind = "List"
               /\ schema[InnerType(called)].kind = "Optional"
               /\ AllReturned[j].root = schema[InnerType(called)].types[1]
               /\ a.state = "returned")
              => /\ b.state = "returned"
                 /\ SameButDefault(schema[InnerType(called)],
                                   a.js.items[1],
                                   Besides(b.js, {"definitions"}))

\* an Optional with a falsy default and one with a truthy default around it
\* were compiled, and then what the inner one wraps
C14_DefaultsCompiled ==
    /\ pc = "done"
    /\ Len(process.returned) = 2
    /\ schema[2].load_default = <<"x">>
    /\ schema[3].kind = "Optional"
    /\ schema[3].load_default = <<"">>
    /\ process.returned[1].root = 2
    /\ process.returned[2].root = 3
    /\ root = 4
    /\ "default" \in KeySet(process.returned[1].result.js)
    /\ "default" \notin KeySet(process.returned[2].result.js)

(***************************************************************************)
(* The reference family: an Object whose fields and extra field use one    *)
(* type directly or through a TypeRef of a registry, as in                 *)
(* test_type_references and                                                *)
(* test_duplicate_type_and_type_references_are_extracted_to_definitions.   *)
(* Node 1 is a TypeRef to the Object, node 2 the Object, nodes 3 and 4 are *)
(* TypeRefs to node 5, the type.  The Object or the reference to it is     *)
(* compiled first, any node afterwards.                                    *)
(***************************************************************************)
ReferenceGraphs ==
    LET uses    == {3, 4, 5}
        objects == {Nary("Object", <<a, b>>) : a \in uses, b \in uses}
                   \cup {ObjectExtra(<<a>>, e) : a \in uses, e \in uses}
        types   == {Leaf("String"), Named(Leaf("String"), <<"N">>),
                    Leaf("Any")}
    IN  {<<Unary("TypeRef", 2), o, Unary("TypeRef", 5), Unary("TypeRef", 5),
           t>> : o \in objects, t \in types}

ReferenceInit ==
    /\ schema \in ReferenceGraphs
    /\ root \in {1, 2}
    /\ Idle

ReferenceSpec == ReferenceInit /\ [][ProcessNext]_vars

(***************************************************************************)
(* C15: a TypeRef is never a key of counts or of definitions; a node is    *)
(* counted once for every place it is reached from, directly or through a  *)
(* TypeRef; a node reached from two places or more has one entry in        *)
(* `definitions` and a $ref to it at every one of these places; and        *)
(* json_schema(ref) returns what json_schema(inner) returns.               *)
(***************************************************************************)
C15_ReferencesTransparent ==
    /\ Analysed =>
          /\ \A n \in NodesOf(schema) :
                IsTypeRef(schema[n])
                   => n \notin DOMAIN counts /\ n \notin DOMAIN definitions
          /\ \A n \in Reached(schema, root) :
                counts[n] = Places(schema, root, n)
    /\ pc = "done" =>
          \A n \in Reached(schema, root) :
              Places(schema, root, n) >= 2
                 => /\ Cardinality(EntriesOf(n)) = 1
                    /\ DocumentRefs(definitions[n].name)
                          = Places(schema, root, n)
    /\ \A i, j \in DOMAIN AllReturned :
          (IsTypeRef(schema[AllReturned[i].root])
              /\ AllReturned[j].root = Resolve(schema, AllReturned[i].root))
             => AllReturned[i].result = AllReturned[j].result

(***************************************************************************)
(* The sanitize family: an Object that uses one named String twice, as in  *)
(* test_definition_name_sanitization; the declared name is any string of   *)
(* a few characters: a lower-case and an upper-case letter, a digit, the   *)
(* two separators, a hyphen and a character outside [a-zA-Z0-9-_].         *)
(***************************************************************************)
NameChars == {"a", "B", "1", "_", " ", "!", "-"}

SanitizeGraphs ==
    {<<Nary("Object", <<2, 2>>), Named(Leaf("String"), name)>> :
        name \in UNION {[1 .. n -> NameChars] : n \in 0 .. MaxName}}

SanitizeInit ==
    /\ schema \in SanitizeGraphs
    /\ root = 1
    /\ Idle

SanitizeSpec == SanitizeInit /\ [][Next]_vars

(***************************************************************************)
(* C16: the definition name of a node with a declared name is that name    *)
(* with every run of characters outside [A-Za-z0-9_-] replaced by one      *)
(* space, trimmed, and with every run of underscores and spaces that a     *)
(* letter follows deleted and that letter upper-cased, whatever its case:  *)
(* no space or underscore stands before a letter in a definition name.     *)
(***************************************************************************)
\* a run of separators is dropped together with the letter after it, which
\* comes back in upper case
RECURSIVE CamelCaseAnyLetter(_)
CamelCaseAnyLetter(s) ==
    IF s = <<>> THEN <<>>
    ELSE LET run == SeparatorRun(s) IN
         IF run > 0 /\ Len(s) > run /\ s[run + 1] \in Lower \cup Upper
         THEN <<ToUpper(s[run + 1])>>
              \o CamelCaseAnyLetter(SubSeq(s, run + 2, Len(s)))
         ELSE IF run > 0
         THEN SubSeq(s, 1, run) \o CamelCaseAnyLetter(SubSeq(s, run + 1, Len(s)))
         ELSE <<Head(s)>> \o CamelCaseAnyLetter(Tail(s))

C16_NoSeparatorBeforeLetter ==
    (pc = "done" /\ schema[2].name # NoName) =>
        LET name == definitions[2].name IN
        /\ name = CamelCaseAnyLetter(Strip(ReplaceInvalid(schema[2].name)))
        /\ DOMAIN result.definitions = {name}
        /\ \A k \in 1 .. (Len(name) - 1) :
              ~(name[k] \in {"_", " "} /\ name[k + 1] \in Lower \cup Upper)

(***************************************************************************)
(* The closure family: a composite that uses one leaf at two places, with  *)
(* or without an AnyOf or a NoneOf validator of its own, as the root or    *)
(* below a List or a Tuple.                                                *)
(***************************************************************************)
ClosureGraphs ==
    LET tops   == {Unary("List", 2), Nary("Tuple", <<2, 2>>)}
        mids   == {Nary("Tuple", <<3, 3>>), Nary("Object", <<3, 3>>),
                   ObjectExtra(<<3>>, 3)}
        leaves == {Leaf("String"), Leaf("Any")}
        vss    == {<<>>, <<AnyOf({"x"})>>, <<NoneOf({"x"})>>}
    IN  {<<top, Validated(mid, vs), Named(leaf, name)>> :
            top \in tops, mid \in mids, vs \in vss, leaf \in leaves,
            name \in {NoName, <<"N">>}}

ClosureInit ==
    /\ schema \in ClosureGraphs
    /\ root \in {1, 2}
    /\ Idle

ClosureSpec == ClosureInit /\ [][Next]_vars

(***************************************************************************)
(* C17: in every returned document the references are closed: the body of  *)
(* every allocated definition has been rendered before the document is     *)
(* assembled, every $ref of the root fragment and of the definition bodies *)
(* names a key of the document's `definitions`, and every entry of         *)
(* `definitions` is the target of at least one $ref of the document.       *)
(***************************************************************************)
C17_ReferencesClosed ==
    pc = "done" =>
        /\ \A n \in DOMAIN definitions : definitions[n].jsonschema # <<>>
        /\ \A js \in DocumentFragments :
              "$ref" \in KeySet(js) => js.ref \in DOMAIN result.definitions
        /\ \A name \in DOMAIN result.definitions : DocumentRefs(name) >= 1

=============================================================================
